---- MODULE Spec2Model ----
(***************************************************************************)
(* The "paper dungeon" generator of YART-Plus (src/paperdungeon.py):       *)
(* RectangularRoom, Point, Room, Dungeon and generate_paper_dungeon.       *)
(*                                                                         *)
(* Two specifications share the state:                                     *)
(*   Spec         one run of generate_paper_dungeon, its random draws      *)
(*                taken nondeterministically;                              *)
(*   SpecDungeon  a Dungeon object driven by arbitrary sequences of        *)
(*                add_room and add_random_corridor calls.                  *)
(***************************************************************************)
EXTENDS Integers, Sequences, FiniteSets, TLC

VARIABLES
    inputs,               \* the arguments of the run (a record, fixed by Init)
    rooms,                \* Dungeon.rooms: sequence of Room nodes
    corridors,            \* Dungeon.corridors: sequence of Points
    data,                 \* Dungeon.data: key string -> occupant
    last,                 \* SpecDungeon's record of the last call: arguments, line returned from, value
    pc,                   \* position of generate_paper_dungeon
    i,                    \* growth-loop counter (line 206)
    new_room,             \* the Point returned to line 207, <<>> for None
    tiles,                \* map.tiles
    start_room,           \* index in rooms of start_room, 0 before line 230
    exit_room,            \* index in rooms of exit_room, 0 before line 253
    player,               \* the player's position, <<>> before player.place
    entities,             \* the entities spawned by place_entities
    j,                    \* index of the room place_entities is called for next
    downstairs_location   \* map.downstairs_location

vars == <<inputs, rooms, corridors, data, last, pc, i, new_room, tiles,
          start_room, exit_room, player, entities, j, downstairs_location>>

dungeonVars == <<rooms, corridors, data, last>>
mapVars == <<tiles, start_room, exit_room, player, entities, j, downstairs_location>>

----------------------------------------------------------------------------
(* Bounds of the model *)

MapWidth == 20
MapHeight == 17
SeedRoomSize == 2
RoomMinSize == 2
RoomMaxSize == 4
MinCorridorLength == 1
MaxCorridorLength == 3
MaxApiCorridors == 4

(* SpecGrow: the corners and sizes of the rectangles grown, the greatest
   growth, and the number of calls chained *)
MaxGrowCoord == 1
MaxGrowSize == 2
MaxGrowth == 2
MaxGrowCalls == 2

(* SpecDungeon adds at most one room for every two corridor calls it may make *)
MaxApiRooms == MaxApiCorridors \div 2

(* Dungeon.__init__'s default padding, which generate_paper_dungeon uses *)
Padding == 4

None == <<>>

----------------------------------------------------------------------------
(* RectangularRoom and Point *)

RectangularRoom(x, y, width, height) ==
    [x1 |-> x, y1 |-> y, x2 |-> x + width, y2 |-> y + height]

Point(x, y) == <<x, y>>

position(r) == Point(r.x1, r.y1)

end(r) == Point(r.x2, r.y2)

size(r) == Point(r.x2 - r.x1, r.y2 - r.y1)

(* int(n / 2): the float quotient truncated toward zero *)
IntHalf(n) == IF n >= 0 THEN n \div 2 ELSE -((-n) \div 2)

center(r) == <<IntHalf(r.x1 + r.x2), IntHalf(r.y1 + r.y2)>>

(* the cells the slices (x1 + 1:x2, y1 + 1:y2) would select *)
inner_behind_walls(r) == {<<x, y>> : x \in (r.x1 + 1)..(r.x2 - 1), y \in (r.y1 + 1)..(r.y2 - 1)}

(* the cells the slices (x1:x2, y1:y2) select *)
inner(r) == {<<x, y>> : x \in r.x1..(r.x2 - 1), y \in r.y1..(r.y2 - 1)}

intersects(self, other) ==
    /\ self.x1 <= other.x2
    /\ self.x2 >= other.x1
    /\ self.y1 <= other.y2
    /\ self.y2 >= other.y1

encloses(self, other) ==
    /\ self.x1 <= other.x1
    /\ self.x2 >= other.x2
    /\ self.y1 <= other.y1
    /\ self.y2 >= other.y2

has_point(self, x, y) ==
    /\ self.x1 <= x /\ x <= self.x2
    /\ self.y1 <= y /\ y <= self.y2

(* grow adding growth to each size once, as its docstring words it *)
grow_by_growth_once(self, growth) ==
    RectangularRoom(self.x1 - growth, self.y1 - growth,
                    size(self)[1] + growth, size(self)[2] + growth)

grow(self, growth) ==
    RectangularRoom(self.x1 - growth, self.y1 - growth,
                    size(self)[1] + growth * 2, size(self)[2] + growth * 2)

UP == Point(0, -1)
DOWN == Point(0, 1)
LEFT == Point(-1, 0)
RIGHT == Point(1, 0)

Add(p, q) == Point(p[1] + q[1], p[2] + q[2])

Walls == {"n", "e", "s", "w"}

Room(r) == [room |-> r, ready_walls |-> Walls, is_room |-> TRUE]

----------------------------------------------------------------------------
(* Dungeon *)

borders ==
    RectangularRoom(Padding, Padding,
                    inputs.map_width - (Padding * 2),
                    inputs.map_height - (Padding * 2))

key(x, y) == ToString(x) \o ":" \o ToString(y)

(* get_data: <<>> for None, <<occupant>> otherwise *)
get_data(d, x, y) == IF key(x, y) \in DOMAIN d THEN <<d[key(x, y)]>> ELSE None

(* _set_data testing the point against the open interior of borders *)
set_data_inside_borders(d, x, y, val) ==
    IF /\ borders.x1 < x /\ x < borders.x2
       /\ borders.y1 < y /\ y < borders.y2
    THEN [k \in DOMAIN d \cup {key(x, y)} |-> IF k = key(x, y) THEN val ELSE d[k]]
    ELSE d

set_data(d, x, y, val) ==
    IF has_point(borders, x, y)
    THEN [k \in DOMAIN d \cup {key(x, y)} |-> IF k = key(x, y) THEN val ELSE d[k]]
    ELSE d

(* in_limits with the overlap test in place of the enclosure test *)
in_limits_by_intersects(room) == intersects(borders, room)

in_limits(room) == encloses(borders, room)

(* the occupants stored in data: a Room node (by its index in rooms) or the
   dict a corridor cell is queued with *)
RoomVal(id, r) == [isCorridor |-> FALSE, id |-> id, room |-> r]
CorridorVal(p) == [isCorridor |-> TRUE, id |-> 0, room |-> RectangularRoom(p[1], p[2], 1, 1)]

(* range(a, b) as a sequence *)
range(a, b) == [n \in 1..(IF b > a THEN b - a ELSE 0) |-> a + n - 1]

(* the loops of lines 290-292 with the y range starting one row late *)
RoomCellsFromSecondRow(r) ==
    LET xs == range(position(r)[1], end(r)[1])
        ys == range(position(r)[2] + 1, end(r)[2])
    IN  [n \in 1..(Len(xs) * Len(ys)) |->
            <<xs[((n - 1) \div Len(ys)) + 1], ys[((n - 1) % Len(ys)) + 1]>>]

(* the nested loops of add_room, lines 290-292: x outer, y inner *)
RoomCells(r) ==
    LET xs == range(position(r)[1], end(r)[1])
        ys == range(position(r)[2], end(r)[2])
    IN  [n \in 1..(Len(xs) * Len(ys)) |->
            <<xs[((n - 1) \div Len(ys)) + 1], ys[((n - 1) % Len(ys)) + 1]>>]

RECURSIVE SetAll(_, _, _)
SetAll(d, cells, val) ==
    IF cells = <<>> THEN d
    ELSE SetAll(set_data(d, Head(cells)[1], Head(cells)[2], val), Tail(cells), val)

(* add_room without the return of line 286 *)
add_room_without_return(rs, d, new) ==
    [rooms |-> Append(rs, Room(new)),
     data  |-> SetAll(d, RoomCells(new), RoomVal(Len(rs) + 1, new)),
     added |-> TRUE]

(* add_room: the rooms and data it leaves *)
add_room(rs, d, new) ==
    IF ~in_limits(new)
    THEN [rooms |-> rs, data |-> d, added |-> FALSE]
    ELSE [rooms |-> Append(rs, Room(new)),
          data  |-> SetAll(d, RoomCells(new), RoomVal(Len(rs) + 1, new)),
          added |-> TRUE]

(* lines 314-340: where the corridor starts and where it heads *)
WallPosition(r, k) ==
    CASE k = "n" -> Point(position(r)[1] + (size(r)[1] \div 2), position(r)[2])
      [] k = "s" -> Point(position(r)[1] + (size(r)[1] \div 2),
                          position(r)[2] + size(r)[2] - 1)
      [] k = "e" -> Point(position(r)[1] + size(r)[1] - 1,
                          position(r)[2] + (size(r)[2] \div 2))
      [] k = "w" -> Point(position(r)[1], position(r)[2] + (size(r)[2] \div 2))

WallDirection(k) ==
    CASE k = "n" -> UP
      [] k = "s" -> DOWN
      [] k = "e" -> RIGHT
      [] k = "w" -> LEFT

(* the border check of lines 353-355 without the grow by padding *)
CellInLimitsUngrown(p) == in_limits(RectangularRoom(p[1], p[2], 1, 1))

(* the border check of lines 353-355 *)
CellInLimits(p) == in_limits(grow(RectangularRoom(p[1], p[2], 1, 1), Padding))

(* the loop of lines 349-373 queueing the occupied cell before it breaks *)
RECURSIVE WalkQueueingCollision(_, _, _, _, _)
WalkQueueingCollision(d, pos, direction, remaining, todo) ==
    IF remaining = 0
    THEN [how |-> "end", position |-> pos, todo |-> todo]
    ELSE LET p == Add(pos, direction) IN
         IF ~CellInLimits(p)
         THEN [how |-> "abort", position |-> p, todo |-> todo]
         ELSE IF get_data(d, p[1], p[2]) # None
              THEN [how |-> "touched", position |-> p, todo |-> Append(todo, p)]
              ELSE WalkQueueingCollision(d, p, direction, remaining - 1, Append(todo, p))

(* the loop of lines 349-373: how it ends, the position it ends at, the queue *)
RECURSIVE Walk(_, _, _, _, _)
Walk(d, pos, direction, remaining, todo) ==
    IF remaining = 0
    THEN [how |-> "end", position |-> pos, todo |-> todo]
    ELSE LET p == Add(pos, direction) IN
         IF ~CellInLimits(p)
         THEN [how |-> "abort", position |-> p, todo |-> todo]
         ELSE IF get_data(d, p[1], p[2]) # None
              THEN [how |-> "touched", position |-> p, todo |-> todo]
              ELSE Walk(d, p, direction, remaining - 1, Append(todo, p))

(* lines 375-380 with corridors.insert(0, cell) in place of append *)
RECURSIVE CommitInserting(_, _, _)
CommitInserting(d, cs, todo) ==
    IF todo = <<>> THEN [data |-> d, corridors |-> cs]
    ELSE CommitInserting(set_data(d, Head(todo)[1], Head(todo)[2], CorridorVal(Head(todo))),
                         <<Head(todo)>> \o cs, Tail(todo))

(* lines 376-380 with the loop one short: range(len(todo) - 1) *)
RECURSIVE CommitAllButLast(_, _, _)
CommitAllButLast(d, cs, todo) ==
    IF Len(todo) <= 1 THEN [data |-> d, corridors |-> cs]
    ELSE CommitAllButLast(
             set_data(d, Head(todo)[1], Head(todo)[2], CorridorVal(Head(todo))),
             Append(cs, Head(todo)), Tail(todo))

(* lines 376-380 *)
RECURSIVE Commit(_, _, _)
Commit(d, cs, todo) ==
    IF todo = <<>> THEN [data |-> d, corridors |-> cs]
    ELSE Commit(set_data(d, Head(todo)[1], Head(todo)[2], CorridorVal(Head(todo))),
                Append(cs, Head(todo)), Tail(todo))

(* lines 375-387 without the test of line 375: the queue is always committed *)
FinishAlwaysCommitting(d, cs, w, connecting) ==
    LET c == Commit(d, cs, w.todo) IN
    [data |-> c.data, corridors |-> c.corridors,
     ret |-> IF w.how # "touched" THEN w.position ELSE None,
     line |-> IF w.how # "touched" THEN 383 ELSE 385]

(* lines 375-387: what is committed and what is returned once the loop is over *)
Finish(d, cs, w, connecting) ==
    IF w.how = "touched" \/ ~connecting
    THEN LET c == Commit(d, cs, w.todo) IN
         [data |-> c.data, corridors |-> c.corridors,
          ret |-> IF w.how # "touched" THEN w.position ELSE None,
          line |-> IF w.how # "touched" THEN 383 ELSE 385]
    ELSE [data |-> d, corridors |-> cs, ret |-> w.position, line |-> 387]

(* line 309 reading the chosen wall without removing it from the room *)
PopWallLeavingWall(rs, r, k) == rs

(* line 309: the chosen wall is popped from the room's ready_walls *)
PopWall(rs, r, k) ==
    [rs EXCEPT ![r].ready_walls = rs[r].ready_walls \ {k}]

(* add_random_corridor with line 356 leaving the loop (break) instead of the call *)
add_random_corridor_break_at_border(rs, cs, d, r, k, length, connecting) ==
    LET start == WallPosition(rs[r].room, k)
        w     == Walk(d, start, WallDirection(k), length, <<>>)
        f     == Finish(d, cs, w, connecting)
    IN  [rooms |-> PopWall(rs, r, k), corridors |-> f.corridors, data |-> f.data,
         ret |-> IF w.how = "abort" THEN None ELSE f.ret,
         line |-> IF w.how = "abort" THEN 356 ELSE f.line, how |-> w.how]

(* add_random_corridor on rooms[r] once the shuffle has chosen wall k *)
add_random_corridor(rs, cs, d, r, k, length, connecting) ==
    LET start == WallPosition(rs[r].room, k)
        w     == Walk(d, start, WallDirection(k), length, <<>>)
        f     == Finish(d, cs, w, connecting)
    IN  IF w.how = "abort"
        THEN [rooms |-> PopWall(rs, r, k), corridors |-> cs, data |-> d,
              ret |-> None, line |-> 356, how |-> w.how]
        ELSE [rooms |-> PopWall(rs, r, k), corridors |-> f.corridors, data |-> f.data,
              ret |-> f.ret, line |-> f.line, how |-> w.how]

(* the record kept of a call *)
NoCall ==
    [op |-> "none", new |-> RectangularRoom(0, 0, 0, 0), room |-> 0, k |-> "-",
     length |-> 0, connecting |-> FALSE, line |-> 0, ret |-> None]

----------------------------------------------------------------------------
(* SpecDungeon: a Dungeon under arbitrary calls *)

ApiInputs ==
    [map_width |-> MapWidth, map_height |-> MapHeight + 2, complexity |-> 0,
     seed_room_size |-> SeedRoomSize,
     room_min_size |-> RoomMinSize, room_max_size |-> RoomMaxSize,
     min_corridor_length |-> MinCorridorLength,
     max_corridor_length |-> MaxCorridorLength,
     max_monsters_per_room |-> 0, max_items_per_room |-> 0]

(* the candidate rooms add_room is called with: some straddle the padding
   margin, one lies along the edge of borders *)
ApiCandidates ==
    {RectangularRoom(x, y, w, h) :
        x \in {Padding - 1, Padding, 2 * Padding, 2 * Padding + 3,
               MapWidth - Padding - 1},
        y \in {2 * Padding},
        w \in {RoomMinSize}, h \in {RoomMinSize}}

ApiInit ==
    /\ inputs = ApiInputs
    /\ rooms = <<>>
    /\ corridors = <<>>
    /\ data = <<>>
    /\ last = NoCall
    /\ pc = "api"
    /\ i = 0
    /\ new_room = None
    /\ tiles = <<>>
    /\ start_room = 0
    /\ exit_room = 0
    /\ player = None
    /\ entities = <<>>
    /\ j = 0
    /\ downstairs_location = <<0, 0>>

ApiAddRoom ==
    /\ pc = "api"
    /\ Len(rooms) < MaxApiRooms
    /\ \E new \in ApiCandidates :
          LET a == add_room(rooms, data, new) IN
          /\ rooms' = a.rooms
          /\ data' = a.data
          /\ last' = [NoCall EXCEPT !.op = "add_room", !.new = new,
                                   !.line = IF a.added THEN 292 ELSE 286]
    /\ UNCHANGED <<inputs, corridors, pc, i, new_room, mapVars>>

ApiCorridorNoWalls ==
    /\ pc = "api"
    /\ \E r \in 1..Len(rooms), length \in MinCorridorLength..(MaxCorridorLength - 1),
          connecting \in BOOLEAN :
          /\ rooms[r].ready_walls = {}
          /\ last' = [NoCall EXCEPT !.op = "add_random_corridor", !.room = r,
                                   !.length = length, !.connecting = connecting,
                                   !.line = 302]
    /\ UNCHANGED <<inputs, rooms, corridors, data, pc, i, new_room, mapVars>>

ApiCorridor ==
    /\ pc = "api"
    /\ i < MaxApiCorridors
    /\ i' = i + 1
    /\ \E r \in 1..Len(rooms), length \in MinCorridorLength..(MaxCorridorLength - 1),
          connecting \in BOOLEAN :
          \E k \in rooms[r].ready_walls :
             LET c == add_random_corridor(rooms, corridors, data, r, k, length, connecting) IN
             /\ rooms' = c.rooms
             /\ corridors' = c.corridors
             /\ data' = c.data
             /\ last' = [NoCall EXCEPT !.op = "add_random_corridor", !.room = r,
                                      !.k = k, !.length = length,
                                      !.connecting = connecting,
                                      !.line = c.line, !.ret = c.ret]
    /\ UNCHANGED <<inputs, pc, new_room, mapVars>>

ApiNext == ApiAddRoom \/ ApiCorridorNoWalls \/ ApiCorridor

SpecDungeon == ApiInit /\ [][ApiNext]_vars

----------------------------------------------------------------------------
(* SpecGrow: RectangularRoom.grow applied to rectangles, results grown again *)

GrowReceivers ==
    {RectangularRoom(x, y, w, h) :
        x \in 0..MaxGrowCoord, y \in 0..MaxGrowCoord,
        w \in 0..MaxGrowSize, h \in 0..MaxGrowSize}

GrowInit ==
    /\ inputs = ApiInputs
    /\ rooms = <<>>
    /\ corridors = <<>>
    /\ data = <<>>
    /\ \E r \in GrowReceivers : last = [NoCall EXCEPT !.new = r]
    /\ pc = "grow"
    /\ i = 0
    /\ new_room = None
    /\ tiles = <<>>
    /\ start_room = 0
    /\ exit_room = 0
    /\ player = None
    /\ entities = <<>>
    /\ j = 0
    /\ downstairs_location = <<0, 0>>

(* a call last.new.grow(growth): the receiver stays in last.new, the rectangle
   returned goes to last.ret *)
GrowCall ==
    /\ pc = "grow"
    /\ i < MaxGrowCalls
    /\ last.ret = None
    /\ \E growth \in (-1)..MaxGrowth :
          last' = [last EXCEPT !.op = "grow", !.length = growth,
                               !.ret = <<grow(last.new, growth)>>]
    /\ i' = i + 1
    /\ UNCHANGED <<inputs, rooms, corridors, data, pc, new_room, mapVars>>

(* the rectangle returned becomes the receiver of the next call *)
GrowResult ==
    /\ pc = "grow"
    /\ last.ret # None
    /\ last' = [NoCall EXCEPT !.new = last.ret[1]]
    /\ UNCHANGED <<inputs, rooms, corridors, data, pc, i, new_room, mapVars>>

GrowNext == GrowCall \/ GrowResult

SpecGrow == GrowInit /\ [][GrowNext]_vars

----------------------------------------------------------------------------
(* Spec: one run of generate_paper_dungeon *)

GenInput(width, c, s, m) ==
    [map_width |-> width, map_height |-> MapHeight, complexity |-> c,
     seed_room_size |-> s,
     room_min_size |-> RoomMinSize, room_max_size |-> RoomMaxSize,
     min_corridor_length |-> MinCorridorLength,
     max_corridor_length |-> MaxCorridorLength,
     max_monsters_per_room |-> m, max_items_per_room |-> m]

(* a wider map with corridors of the greatest length only and rooms of the
   least size only: corridors outrun the rooms placed at their ends *)
LongCorridorInput ==
    [GenInput(MapWidth + 4, 1, SeedRoomSize, 0) EXCEPT
        !.room_max_size = RoomMinSize + 1,
        !.min_corridor_length = MaxCorridorLength,
        !.max_corridor_length = MaxCorridorLength + 1]

(* the narrower map with rooms from one cell less than the least size *)
NarrowRoomsInput ==
    [GenInput(MapWidth - 1, 1, SeedRoomSize, 0) EXCEPT
        !.room_min_size = RoomMinSize - 1,
        !.room_max_size = RoomMinSize + 1]

(* the arguments of the runs explored: growth on the full map with nothing to
   spawn; growth on a map one column narrower with monsters and items; a seed
   room as wide as the map, which the border check rejects; growth with long
   corridors; growth with narrow rooms; and no growth at all *)
GenInputs ==
    {GenInput(MapWidth, 1, SeedRoomSize, 0), GenInput(MapWidth, 1, MapWidth, 0)}
    \cup {GenInput(MapWidth - 1, 1, SeedRoomSize, 1), LongCorridorInput, NarrowRoomsInput}
    \cup {GenInput(MapWidth, 0, s, m) :
             s \in {SeedRoomSize, SeedRoomSize + 1, MapWidth}, m \in {0, 1}}

(* random.randrange(a, b) *)
randrange(a, b) == a..(b - 1)

(* random.randint(a, b) *)
randint(a, b) == a..b

Coords == (0..(inputs.map_width - 1)) \X (0..(inputs.map_height - 1))

(* map.tiles holds tile_types.wall wherever nothing was written (GameMap.__init__,
   np.full); tiles records the writes *)
Tile(c) == IF c \in DOMAIN tiles THEN tiles[c] ELSE "wall"

SetTiles(t, cells, kind) ==
    [c \in DOMAIN t \cup cells |-> IF c \in cells THEN kind ELSE t[c]]

(* lines 197-204 *)
SeedRoom ==
    RectangularRoom(IntHalf(inputs.map_width - inputs.seed_room_size),
                    IntHalf(inputs.map_height - inputs.seed_room_size),
                    inputs.seed_room_size, inputs.seed_room_size)

(* line 217 with the offset's sign flipped *)
RoomPastCorridorEnd(p, w, h) == RectangularRoom(p[1] + 1, p[2] + 1, w, h)

(* line 217 *)
RoomAtCorridorEnd(p, w, h) == RectangularRoom(p[1] - 1, p[2] - 1, w, h)

Init ==
    /\ inputs \in GenInputs
    /\ rooms = <<>>
    /\ corridors = <<>>
    /\ data = <<>>
    /\ last = NoCall
    /\ pc = "Seeding"
    /\ i = 0
    /\ new_room = None
    /\ tiles = <<>>
    /\ start_room = 0
    /\ exit_room = 0
    /\ player = None
    /\ entities = <<>>
    /\ j = 0
    /\ downstairs_location = <<0, 0>>

(* lines 197-204 *)
Seed ==
    /\ pc = "Seeding"
    /\ LET a == add_room(rooms, data, SeedRoom) IN
       /\ rooms' = a.rooms
       /\ data' = a.data
       /\ last' = last
    /\ pc' = "Growing"
    /\ UNCHANGED <<inputs, corridors, i, new_room, mapVars>>

(* get_random_room drawing its index from randrange(1, len(rooms)) *)
get_random_room_from_one(rs) ==
    IF Len(rs) <= 1 THEN {0} ELSE {n + 1 : n \in randrange(1, Len(rs))}

(* get_random_room: the indices in rooms of the nodes it may return; 0 stands
   for the ValueError random.randrange(0) raises *)
get_random_room(rs) ==
    IF Len(rs) = 0 THEN {0} ELSE {n + 1 : n \in randrange(0, Len(rs))}

(* line 208 with no room: get_random_room raises and the run ends *)
GrowNoRoom ==
    /\ pc = "Growing"
    /\ i < inputs.complexity * 8
    /\ 0 \in get_random_room(rooms)
    /\ pc' = "Failed"
    /\ UNCHANGED <<inputs, dungeonVars, i, new_room, mapVars>>

(* lines 207-211, the room drawn having no wall left *)
GrowNoWalls ==
    /\ pc = "Growing"
    /\ i < inputs.complexity * 8
    /\ \E r \in get_random_room(rooms) \ {0},
          length \in randrange(inputs.min_corridor_length, inputs.max_corridor_length) :
          /\ rooms[r].ready_walls = {}
          /\ last' = last
    /\ i' = i + 1
    /\ UNCHANGED <<inputs, rooms, corridors, data, pc, new_room, mapVars>>

(* lines 207-211 *)
GrowCorridor ==
    /\ pc = "Growing"
    /\ i < inputs.complexity * 8
    /\ \E r \in get_random_room(rooms) \ {0},
          length \in randrange(inputs.min_corridor_length, inputs.max_corridor_length) :
          \E k \in rooms[r].ready_walls :
             LET c == add_random_corridor(rooms, corridors, data, r, k, length, FALSE) IN
             /\ rooms' = c.rooms
             /\ corridors' = c.corridors
             /\ data' = c.data
             /\ last' = last
             /\ new_room' = c.ret
             /\ IF c.ret # None
                THEN pc' = "NewRoom" /\ i' = i
                ELSE pc' = "Growing" /\ i' = i + 1
    /\ UNCHANGED <<inputs, mapVars>>

(* lines 213-217 not counted as part of the loop's iteration *)
GrowRoomSameIteration ==
    /\ pc = "NewRoom"
    /\ \E w \in randrange(inputs.room_min_size, inputs.room_max_size),
          h \in randrange(inputs.room_min_size, inputs.room_max_size) :
          LET a == add_room(rooms, data, RoomAtCorridorEnd(new_room, w, h)) IN
          /\ rooms' = a.rooms
          /\ data' = a.data
          /\ last' = last
    /\ pc' = "Growing"
    /\ new_room' = None
    /\ UNCHANGED <<inputs, corridors, i, mapVars>>

(* lines 213-217 *)
GrowRoom ==
    /\ pc = "NewRoom"
    /\ \E w \in randrange(inputs.room_min_size, inputs.room_max_size),
          h \in randrange(inputs.room_min_size, inputs.room_max_size) :
          LET a == add_room(rooms, data, RoomAtCorridorEnd(new_room, w, h)) IN
          /\ rooms' = a.rooms
          /\ data' = a.data
          /\ last' = last
    /\ pc' = "Growing"
    /\ i' = i + 1
    /\ new_room' = None
    /\ UNCHANGED <<inputs, corridors, mapVars>>

(* line 206: the loop is over *)
GrowEnd ==
    /\ pc = "Growing"
    /\ i = inputs.complexity * 8
    /\ pc' = "Rasterizing"
    /\ UNCHANGED <<inputs, dungeonVars, i, new_room, mapVars>>

CorridorCells == {corridors[n] : n \in 1..Len(corridors)}

RoomInners == UNION {inner(rooms[n].room) : n \in 1..Len(rooms)}

(* lines 222-227 *)
Rasterize ==
    /\ pc = "Rasterizing"
    /\ tiles' = SetTiles(SetTiles(tiles, CorridorCells, "floor"), RoomInners, "floor")
    /\ pc' = "PlacingPlayer"
    /\ UNCHANGED <<inputs, dungeonVars, i, new_room, start_room, exit_room, player,
                   entities, j, downstairs_location>>

(* line 230 with no room: random.randrange(0) raises ValueError *)
PlacePlayerNoRoom ==
    /\ pc = "PlacingPlayer"
    /\ Len(rooms) = 0
    /\ pc' = "Failed"
    /\ UNCHANGED <<inputs, dungeonVars, i, new_room, mapVars>>

(* lines 230-231 *)
PlacePlayer ==
    /\ pc = "PlacingPlayer"
    /\ \E r \in randrange(0, Len(rooms)) :
          /\ start_room' = r + 1
          /\ player' = center(rooms[r + 1].room)
    /\ j' = 1
    /\ pc' = "Populating"
    /\ UNCHANGED <<inputs, dungeonVars, i, new_room, tiles, exit_room, entities,
                   downstairs_location>>

(* line 142 over the spawned entities alone, the player left out *)
EntityAtSpawnedOnly(ents, pl, x, y) ==
    \E n \in 1..Len(ents) : ents[n].x = x /\ ents[n].y = y

(* line 142: some entity of dungeon.entities is at (x, y) *)
EntityAt(ents, pl, x, y) ==
    \/ pl = <<x, y>>
    \/ \E n \in 1..Len(ents) : ents[n].x = x /\ ents[n].y = y

(* lines 138-143: kinds are the entities drawn, cells the (x, y) drawn for each *)
RECURSIVE SpawnAll(_, _, _, _)
SpawnAll(ents, pl, kinds, cells) ==
    IF kinds = <<>> THEN ents
    ELSE LET x == Head(cells)[1]
             y == Head(cells)[2]
         IN  SpawnAll(IF ~EntityAt(ents, pl, x, y)
                      THEN Append(ents, [kind |-> Head(kinds), x |-> x, y |-> y])
                      ELSE ents,
                      pl, Tail(kinds), Tail(cells))

(* lines 139-140: the cells randint may draw in a room *)
SpawnCells(r) == randint(r.x1 + 1, r.x2 - 1) \X randint(r.y1 + 1, r.y2 - 1)

(* place_entities for one room; what get_entities_at_random draws is kept as the
   kind of each entity alone *)
place_entities(ents, pl, r, max_monsters, max_items) ==
    {SpawnAll(ents, pl,
              [n \in 1..(nm + ni) |-> IF n <= nm THEN "monster" ELSE "item"], cells) :
        <<nm, ni, cells>> \in
            UNION {{<<a, b, c>> : c \in [1..(a + b) -> SpawnCells(r)]} :
                     <<a, b>> \in randint(0, max_monsters) \X randint(0, max_items)}}

(* lines 234-249, one room of the loop *)
Populate ==
    /\ pc = "Populating"
    /\ j <= Len(rooms)
    /\ \E ents \in place_entities(entities, player, rooms[j].room,
                                  IF j = start_room THEN 0
                                  ELSE inputs.max_monsters_per_room,
                                  inputs.max_items_per_room) :
          entities' = ents
    /\ j' = j + 1
    /\ UNCHANGED <<inputs, dungeonVars, pc, i, new_room, tiles, start_room, exit_room,
                   player, downstairs_location>>

PopulateEnd ==
    /\ pc = "Populating"
    /\ j > Len(rooms)
    /\ pc' = "Finalizing"
    /\ UNCHANGED <<inputs, dungeonVars, i, new_room, mapVars>>

(* lines 252-255 without the comparison to start_room *)
ExitRoomAnyRoom ==
    /\ pc = "Finalizing"
    /\ \E r \in randrange(0, Len(rooms)) : exit_room' = r + 1
    /\ pc' = "PlacingStairs"
    /\ UNCHANGED <<inputs, dungeonVars, i, new_room, tiles, start_room, player,
                   entities, j, downstairs_location>>

(* lines 252-255, a draw that ends the loop *)
ExitRoomFound ==
    /\ pc = "Finalizing"
    /\ \E r \in randrange(0, Len(rooms)) :
          /\ r + 1 # start_room
          /\ exit_room' = r + 1
    /\ pc' = "PlacingStairs"
    /\ UNCHANGED <<inputs, dungeonVars, i, new_room, tiles, start_room, player,
                   entities, j, downstairs_location>>

(* lines 252-255, a draw of the start room: the loop goes round, nothing changes *)
ExitRoomResample ==
    /\ pc = "Finalizing"
    /\ \E r \in randrange(0, Len(rooms)) : r + 1 = start_room
    /\ UNCHANGED vars

(* lines 258-259 *)
PlaceStairs ==
    /\ pc = "PlacingStairs"
    /\ tiles' = SetTiles(tiles, {center(rooms[exit_room].room)}, "down_stairs")
    /\ downstairs_location' = center(rooms[exit_room].room)
    /\ pc' = "Done"
    /\ UNCHANGED <<inputs, dungeonVars, i, new_room, start_room, exit_room, player,
                   entities, j>>

Next ==
    \/ Seed
    \/ GrowNoRoom
    \/ GrowNoWalls
    \/ GrowCorridor
    \/ GrowRoom
    \/ GrowEnd
    \/ Rasterize
    \/ PlacePlayerNoRoom
    \/ PlacePlayer
    \/ Populate
    \/ PopulateEnd
    \/ ExitRoomFound
    \/ ExitRoomResample
    \/ PlaceStairs

Spec == Init /\ [][Next]_vars

----------------------------------------------------------------------------
(* Properties of generate_paper_dungeon, checked under Spec *)

NonWall == {c \in Coords : Tile(c) # "wall"}

Adjacent4(c) ==
    {<<c[1] + 1, c[2]>>, <<c[1] - 1, c[2]>>, <<c[1], c[2] + 1>>, <<c[1], c[2] - 1>>}

(* the tiles of `within` that a path of 4-adjacent tiles of `within` reaches *)
RECURSIVE Flood(_, _, _)
Flood(within, seen, frontier) ==
    IF frontier = {} THEN seen
    ELSE LET nxt == (UNION {Adjacent4(f) : f \in frontier} \cap within) \ seen
         IN  Flood(within, seen \cup nxt, nxt)

(* C1: in the map generate_paper_dungeon returns, every non-wall tile, the
   down-stairs tile included, is reached from the player's tile by a path of
   4-adjacent non-wall tiles *)
C1_Connected ==
    pc = "Done" =>
        /\ player \in NonWall
        /\ Flood(NonWall, {player}, {player}) = NonWall

(* a returned map with rooms grown at the ends of corridors *)
C1_Witness ==
    /\ pc = "Done"
    /\ Len(rooms) >= 3
    /\ Len(corridors) >= 2
    /\ Cardinality(NonWall) > Cardinality(inner(rooms[1].room)) + 2

(* C2: generate_paper_dungeon never hangs; in particular the stairs-room loop
   of lines 252-255 is never entered in a state where no draw can end it *)
C2_NeverHangs ==
    pc = "Finalizing" => \E r \in randrange(0, Len(rooms)) : r + 1 # start_room

DownStairs == {c \in Coords : Tile(c) = "down_stairs"}

(* C3: when generate_paper_dungeon completes exactly one tile is down-stairs; it
   is the center of a room other than the start room, and map.downstairs_location
   is that coordinate *)
C3_Stairs ==
    pc = "Done" =>
        /\ Cardinality(DownStairs) = 1
        /\ \E r \in 1..Len(rooms) :
              /\ r # start_room
              /\ DownStairs = {<<(rooms[r].room.x1 + rooms[r].room.x2) \div 2,
                                 (rooms[r].room.y1 + rooms[r].room.y2) \div 2>>}
              /\ downstairs_location \in DownStairs

C3_Witness ==
    /\ pc = "Done"
    /\ Len(rooms) >= 3
    /\ exit_room # 0
    /\ downstairs_location # player

(* C5: no write to the spatial index, by add_room or by a corridor commit,
   targets a coordinate that already holds another occupant *)
C5_NoOverwrite ==
    [][\A k \in DOMAIN data : k \in DOMAIN data' /\ data'[k] = data[k]]_vars

----------------------------------------------------------------------------
(* Properties of Dungeon, checked under SpecDungeon *)

(* C4: every room of rooms is enclosed by borders *)
C4_RoomsEnclosed ==
    \A n \in 1..Len(rooms) :
        /\ Padding <= rooms[n].room.x1
        /\ rooms[n].room.x2 <= inputs.map_width - Padding
        /\ Padding <= rooms[n].room.y1
        /\ rooms[n].room.y2 <= inputs.map_height - Padding

(* a candidate was rejected while rooms holds accepted rooms *)
C4_Witness ==
    /\ Len(rooms) >= 1
    /\ last.op = "add_room"
    /\ last.line = 286

(* What a corridor call must do, stated from the state before the call: the
   n-th cell of the walk from wall k of room r, the border check on a cell, and
   whether the first n cells pass the check and are free *)
Cell(r, k, n) ==
    <<WallPosition(r, k)[1] + n * WallDirection(k)[1],
      WallPosition(r, k)[2] + n * WallDirection(k)[2]>>

CellSeq(r, k, n) == [m \in 1..n |-> Cell(r, k, m)]

InBorderCheck(p) ==
    /\ Padding + Padding <= p[1]
    /\ p[1] + 1 + Padding <= inputs.map_width - Padding
    /\ Padding + Padding <= p[2]
    /\ p[2] + 1 + Padding <= inputs.map_height - Padding

Occupied(d, p) == key(p[1], p[2]) \in DOMAIN d

Clear(d, r, k, n) ==
    \A m \in 1..n : InBorderCheck(Cell(r, k, m)) /\ ~Occupied(d, Cell(r, k, m))

(* this step is a call of add_random_corridor on a room with wall last'.k unused *)
CorridorCall ==
    /\ last'.op = "add_random_corridor"
    /\ last'.room \in 1..Len(rooms)
    /\ last'.k \in rooms[last'.room].ready_walls

CalledRoom == rooms[last'.room].room

(* C6: a call with connecting = true whose corridor walks all its steps inside
   the border check over free cells commits nothing and returns no value *)
C6_DiscardReturnsNothing ==
    [][(CorridorCall /\ last'.connecting
            /\ Clear(data, CalledRoom, last'.k, last'.length))
        => (data' = data /\ corridors' = corridors /\ last'.ret = None)]_vars

(* C7: a call with connecting = false whose corridor walks all its length >= 1
   steps inside the border check over free cells appends exactly those cells to
   corridors in walk order, marks each occupied by a corridor cell, and returns
   the last of them *)
C7_DeadEnd ==
    [][(CorridorCall /\ ~last'.connecting /\ last'.length >= 1
            /\ Clear(data, CalledRoom, last'.k, last'.length))
        => /\ corridors' = corridors \o CellSeq(CalledRoom, last'.k, last'.length)
           /\ \A m \in 1..last'.length :
                 /\ Occupied(data', Cell(CalledRoom, last'.k, m))
                 /\ get_data(data', Cell(CalledRoom, last'.k, m)[1],
                             Cell(CalledRoom, last'.k, m)[2])[1].isCorridor
           /\ last'.ret = Cell(CalledRoom, last'.k, last'.length)
           /\ last'.ret = corridors'[Len(corridors')]]_vars

(* a dead end of two cells was committed and returned *)
C7_Witness ==
    /\ last.op = "add_random_corridor"
    /\ ~last.connecting
    /\ last.length >= 2
    /\ Len(corridors) >= last.length
    /\ last.ret # None
    /\ last.ret = corridors[Len(corridors)]

(* C8: when the walk reaches an occupied coordinate, for either value of
   connecting, exactly the cells before it are appended to corridors and written
   to the index, the occupied coordinate is neither appended nor rewritten, and
   no value is returned *)
C8_Junction ==
    [][\A n \in 1..last'.length :
          (CorridorCall
              /\ Clear(data, CalledRoom, last'.k, n - 1)
              /\ InBorderCheck(Cell(CalledRoom, last'.k, n))
              /\ Occupied(data, Cell(CalledRoom, last'.k, n)))
          => /\ corridors' = corridors \o CellSeq(CalledRoom, last'.k, n - 1)
             /\ DOMAIN data' =
                   DOMAIN data \cup {key(Cell(CalledRoom, last'.k, m)[1],
                                         Cell(CalledRoom, last'.k, m)[2]) : m \in 1..(n - 1)}
             /\ \A q \in DOMAIN data : data'[q] = data[q]
             /\ last'.ret = None]_vars

(* the first corridor call touched a room after one free cell, connecting = true *)
C8_Witness ==
    /\ last.op = "add_random_corridor"
    /\ last.connecting
    /\ last.line = 385
    /\ i = 1
    /\ Len(corridors) >= 1
    /\ Occupied(data, Cell(rooms[last.room].room, last.k, Len(corridors) + 1))

(* C9: when a step fails the border check before any occupied cell is met, the
   call returns no value and leaves corridors and the index as they were, even
   if cells were queued; only the chosen wall is removed from the room *)
C9_Abort ==
    [][\A n \in 1..last'.length :
          (CorridorCall
              /\ Clear(data, CalledRoom, last'.k, n - 1)
              /\ ~InBorderCheck(Cell(CalledRoom, last'.k, n)))
          => /\ last'.ret = None
             /\ corridors' = corridors
             /\ data' = data
             /\ rooms' = [rooms EXCEPT ![last'.room].ready_walls = @ \ {last'.k}]
             /\ Cardinality(rooms'[last'.room].ready_walls) =
                   Cardinality(rooms[last'.room].ready_walls) - 1]_vars

(* a call aborted at its second step, its first cell queued and still free *)
C9_Witness ==
    /\ last.op = "add_random_corridor"
    /\ last.line = 356
    /\ last.length = 2
    /\ last.k \notin rooms[last.room].ready_walls
    /\ InBorderCheck(Cell(rooms[last.room].room, last.k, 1))
    /\ ~Occupied(data, Cell(rooms[last.room].room, last.k, 1))
    /\ ~InBorderCheck(Cell(rooms[last.room].room, last.k, 2))

(* the five outcomes of a call, each by what it finds and what it leaves *)
NoWallsLeft ==
    /\ rooms[last'.room].ready_walls = {}
    /\ rooms' = rooms /\ corridors' = corridors /\ data' = data
    /\ last'.ret = None

AbortedOutOfBounds ==
    /\ CorridorCall
    /\ \E n \in 1..last'.length :
          /\ Clear(data, CalledRoom, last'.k, n - 1)
          /\ ~InBorderCheck(Cell(CalledRoom, last'.k, n))
    /\ corridors' = corridors /\ data' = data
    /\ last'.ret = None

CommittedDeadEndWithReturn ==
    /\ CorridorCall
    /\ ~last'.connecting
    /\ Clear(data, CalledRoom, last'.k, last'.length)
    /\ corridors' = corridors \o CellSeq(CalledRoom, last'.k, last'.length)
    /\ last'.ret = Cell(CalledRoom, last'.k, last'.length)

CommittedJunctionNoReturn ==
    /\ CorridorCall
    /\ \E n \in 1..last'.length :
          /\ Clear(data, CalledRoom, last'.k, n - 1)
          /\ InBorderCheck(Cell(CalledRoom, last'.k, n))
          /\ Occupied(data, Cell(CalledRoom, last'.k, n))
          /\ corridors' = corridors \o CellSeq(CalledRoom, last'.k, n - 1)
    /\ last'.ret = None

(* the value returned is no part of this outcome: C6 is about it *)
DiscardedFailedRequiredConnection ==
    /\ CorridorCall
    /\ last'.connecting
    /\ Clear(data, CalledRoom, last'.k, last'.length)
    /\ corridors' = corridors /\ data' = data

OutcomeCount ==
    (IF NoWallsLeft THEN 1 ELSE 0) + (IF AbortedOutOfBounds THEN 1 ELSE 0)
    + (IF CommittedDeadEndWithReturn THEN 1 ELSE 0)
    + (IF CommittedJunctionNoReturn THEN 1 ELSE 0)
    + (IF DiscardedFailedRequiredConnection THEN 1 ELSE 0)

(* C10: every call of add_random_corridor ends in exactly one of the five
   outcomes, and cells are committed only in the two committed ones *)
C10_Outcomes ==
    [][(last'.op = "add_random_corridor" /\ last'.room \in 1..Len(rooms))
        => /\ OutcomeCount = 1
           /\ (corridors' # corridors \/ data' # data)
                 => (CommittedDeadEndWithReturn \/ CommittedJunctionNoReturn)]_vars

(* calls have ended in each way a call with a wall can end: a required
   connection that failed is the last of them, after a committed corridor *)
C10_Witness ==
    /\ last.op = "add_random_corridor"
    /\ last.connecting
    /\ last.line = 387
    /\ Len(corridors) >= 1
    /\ \E r \in 1..Len(rooms) : Cardinality(rooms[r].ready_walls) <= 1

(* C11: a call of add_random_corridor on a room with an unused wall takes one of
   the room's unused walls and removes exactly that wall, whatever the outcome,
   leaving every other room's walls as they were; no step adds a wall to a
   room, and a room never holds other walls than its four *)
C11_WallsShrink ==
    [][/\ (/\ last'.op = "add_random_corridor"
           /\ last'.room \in 1..Len(rooms)
           /\ rooms[last'.room].ready_walls # {})
          => /\ last'.k \in rooms[last'.room].ready_walls
             /\ Len(rooms') = Len(rooms)
             /\ rooms'[last'.room].ready_walls =
                   rooms[last'.room].ready_walls \ {last'.k}
             /\ Cardinality(rooms'[last'.room].ready_walls) =
                   Cardinality(rooms[last'.room].ready_walls) - 1
             /\ \A r \in 1..Len(rooms) :
                   r # last'.room => rooms'[r].ready_walls = rooms[r].ready_walls
       /\ \A r \in 1..Len(rooms) :
             /\ r \in 1..Len(rooms')
             /\ rooms'[r].ready_walls \subseteq rooms[r].ready_walls
       /\ \A r \in 1..Len(rooms') :
             /\ rooms'[r].ready_walls \subseteq Walls
             /\ Cardinality(rooms'[r].ready_walls) <= 4]_vars

(* four calls were made on one room, which has no wall left, while another
   room still has all of its own *)
C11_Witness ==
    /\ last.op = "add_random_corridor"
    /\ i = 4
    /\ rooms[last.room].ready_walls = {}
    /\ \E r \in 1..Len(rooms) : rooms[r].ready_walls = Walls

(* the rectangle lies within borders: [Padding, map - Padding] on both axes *)
WithinBorders(r) ==
    /\ Padding <= r.x1 /\ r.x2 <= inputs.map_width - Padding
    /\ Padding <= r.y1 /\ r.y2 <= inputs.map_height - Padding

(* C12: add_room with a candidate that borders does not enclose changes
   nothing: rooms, corridors and the index are as they were *)
C12_RejectedNoOp ==
    [][(last'.op = "add_room" /\ ~WithinBorders(last'.new))
        => (rooms' = rooms /\ corridors' = corridors /\ data' = data)]_vars

(* a candidate reaching past a border was offered to a dungeon that holds a
   room and a corridor, part of the candidate lying inside borders *)
C12_Witness ==
    /\ last.op = "add_room"
    /\ ~WithinBorders(last.new)
    /\ \E c \in inner(last.new) : has_point(borders, c[1], c[2])
    /\ Len(rooms) >= 1
    /\ Len(corridors) >= 1

(* the keys of the cells x1 <= x < x2, y1 <= y < y2 of a rectangle *)
FootprintKeys(r) == {key(x, y) : x \in r.x1..(r.x2 - 1), y \in r.y1..(r.y2 - 1)}

(* C13: add_room with a candidate that borders encloses appends one Room node
   wrapping the candidate, its four walls unused, at the end of rooms, and
   afterwards every cell x1 <= x < x2, y1 <= y < y2 of the candidate maps to
   that node in the index; the rest of the index and corridors are untouched *)
C13_AddRoom ==
    [][(last'.op = "add_room" /\ WithinBorders(last'.new))
        => /\ Len(rooms') = Len(rooms) + 1
           /\ \A r \in 1..Len(rooms) : rooms'[r] = rooms[r]
           /\ rooms'[Len(rooms')].room = last'.new
           /\ rooms'[Len(rooms')].ready_walls = {"n", "e", "s", "w"}
           /\ \A x \in last'.new.x1..(last'.new.x2 - 1),
                 y \in last'.new.y1..(last'.new.y2 - 1) :
                 /\ get_data(data', x, y) # None
                 /\ ~get_data(data', x, y)[1].isCorridor
                 /\ get_data(data', x, y)[1].id = Len(rooms')
                 /\ get_data(data', x, y)[1].room = last'.new
           /\ DOMAIN data' = DOMAIN data \cup FootprintKeys(last'.new)
           /\ \A q \in DOMAIN data \ FootprintKeys(last'.new) : data'[q] = data[q]
           /\ corridors' = corridors]_vars

(* a second room was added beside the first, after a corridor was committed:
   rooms has length 2 and the cells of both rooms are occupied *)
C13_Witness ==
    /\ last.op = "add_room"
    /\ WithinBorders(last.new)
    /\ Len(rooms) = 2
    /\ rooms[2].room = last.new
    /\ rooms[1].room # rooms[2].room
    /\ Len(corridors) >= 1
    /\ Cardinality(DOMAIN data) >=
          Cardinality(FootprintKeys(rooms[1].room)) + Cardinality(FootprintKeys(rooms[2].room))

(* C14: every cell of corridors passes the border check: the 1x1 rectangle at
   the cell grown by padding on all sides lies within borders, that is
   borders.x1 + padding <= x, x + 1 + padding <= borders.x2, and so for y *)
C14_CorridorsInBorderCheck ==
    \A n \in 1..Len(corridors) :
        /\ (Padding + Padding) <= corridors[n][1]
        /\ corridors[n][1] + 1 + Padding <= (inputs.map_width - Padding)
        /\ (Padding + Padding) <= corridors[n][2]
        /\ corridors[n][2] + 1 + Padding <= (inputs.map_height - Padding)

(* corridors holds cells of several calls, one of them on the last row that
   passes the check, and the last call was stopped by the check *)
C14_Witness ==
    /\ pc = "api"
    /\ Len(corridors) >= 2
    /\ \E n \in 1..Len(corridors) :
          corridors[n][2] + 1 + Padding = inputs.map_height - Padding
    /\ last.op = "add_random_corridor"
    /\ last.line = 356

(* the cell is a recorded corridor cell or lies in [x1, x2) x [y1, y2) of a room *)
Carved(c) ==
    \/ \E n \in 1..Len(corridors) : corridors[n] = c
    \/ \E n \in 1..Len(rooms) :
          /\ rooms[n].room.x1 <= c[1] /\ c[1] < rooms[n].room.x2
          /\ rooms[n].room.y1 <= c[2] /\ c[2] < rooms[n].room.y2

(* C15: in the grid generate_paper_dungeon returns, a tile is other than wall
   exactly when it is a recorded corridor cell or lies in the half-open interior
   of a room; every such tile is floor but for one down-stairs tile, every other
   tile is wall, and nothing was written outside the grid *)
C15_Rasterized ==
    pc = "Done" =>
        /\ DOMAIN tiles \subseteq Coords
        /\ \A c \in Coords :
              /\ Tile(c) \in {"wall", "floor", "down_stairs"}
              /\ (Tile(c) # "wall") <=> Carved(c)
        /\ Cardinality({c \in Coords : Tile(c) = "down_stairs"}) = 1
        /\ \A c \in Coords : Tile(c) = "down_stairs" => Carved(c)

(* the returned grid has a floor tile that only a corridor carved, a floor tile
   on a room's first row and column, and walls around them *)
C15_Witness ==
    /\ pc = "Done"
    /\ \E n \in 1..Len(corridors) :
          /\ Tile(corridors[n]) = "floor"
          /\ \A r \in 1..Len(rooms) : corridors[n] \notin inner(rooms[r].room)
    /\ \E r \in 1..Len(rooms) : Tile(<<rooms[r].room.x1, rooms[r].room.y1>>) = "floor"
    /\ \E c \in Coords : Tile(c) = "wall"

(* C16: the rooms of a dungeon generate_paper_dungeon returns do not overlap:
   no two distinct rooms of rooms share a cell of their footprints *)
C16_RoomsDisjoint ==
    pc = "Done" =>
        \A a, b \in 1..Len(rooms) :
            a # b => FootprintKeys(rooms[a].room) \cap FootprintKeys(rooms[b].room) = {}

(* the coordinates taken by the player and the first n spawned entities *)
TakenBy(n) == {player} \cup {<<entities[m].x, entities[m].y>> : m \in 1..n}

(* C17: once the player is placed, and so after all rooms are populated, no two
   entities of the map (player, monsters, items) are at the same coordinate;
   populating a room only adds entities, each inside that room on a cell that
   no entity held before it: an entity drawn onto a held cell is not spawned *)
C17_NoSharedCell ==
    [][/\ pc' \in {"Populating", "Finalizing", "PlacingStairs", "Done"}
          => /\ \A a, b \in 1..Len(entities') :
                   a # b => <<entities'[a].x, entities'[a].y>> #
                               <<entities'[b].x, entities'[b].y>>
             /\ \A a \in 1..Len(entities') :
                   <<entities'[a].x, entities'[a].y>> # player'
       /\ (pc = "Populating" /\ j' = j + 1)
          => /\ Len(entities') >= Len(entities)
             /\ \A a \in 1..Len(entities) : entities'[a] = entities[a]
             /\ \A a \in (Len(entities) + 1)..Len(entities') :
                   /\ <<entities'[a].x, entities'[a].y>> \notin TakenBy(a - 1)'
                   /\ rooms[j].room.x1 < entities'[a].x
                   /\ entities'[a].x < rooms[j].room.x2
                   /\ rooms[j].room.y1 < entities'[a].y
                   /\ entities'[a].y < rooms[j].room.y2
                   /\ entities'[a].kind = "monster" => j # start_room]_vars

(* all rooms are populated: a room holds a monster and an item on different
   cells, and the player stands on the only cell of the start room an item
   could be drawn onto *)
C17_Witness ==
    /\ pc = "Done"
    /\ inputs.max_items_per_room >= 1
    /\ \E a, b \in 1..Len(entities) :
          /\ entities[a].kind = "monster" /\ entities[b].kind = "item"
          /\ \E r \in 1..Len(rooms) :
                {<<entities[a].x, entities[a].y>>, <<entities[b].x, entities[b].y>>}
                    \subseteq inner(rooms[r].room)
    /\ (rooms[start_room].room.x2 - rooms[start_room].room.x1) = 2
    /\ (rooms[start_room].room.y2 - rooms[start_room].room.y1) = 2
    /\ player = <<rooms[start_room].room.x1 + 1, rooms[start_room].room.y1 + 1>>

(* C19: in a growth iteration get_random_room either raises, when rooms is
   empty, and the run ends there with nothing changed and no corridor tried, or
   yields a node of a non-empty rooms, the only node the iteration may alter,
   leaving rooms in order; the error is raised in the first iteration of a run
   whose seed room the border check rejected, and every such run ends by it *)
C19_GetRandomRoom ==
    [][/\ (pc = "Growing" /\ i < inputs.complexity * 8 /\ Len(rooms) = 0)
          => /\ pc' = "Failed"
             /\ i = 0
             /\ ~WithinBorders(SeedRoom)
             /\ rooms' = rooms /\ corridors' = corridors /\ data' = data
             /\ i' = i /\ new_room' = new_room
       /\ (pc = "Growing" /\ i < inputs.complexity * 8 /\ Len(rooms) > 0)
          => /\ pc' # "Failed"
             /\ Len(rooms') = Len(rooms)
             /\ \A r \in 1..Len(rooms) : rooms'[r].room = rooms[r].room
             /\ \E r \in 1..Len(rooms) :
                   \A q \in 1..Len(rooms) : q # r => rooms'[q] = rooms[q]
       /\ (pc = "Seeding" /\ inputs.complexity >= 1 /\ ~WithinBorders(SeedRoom))
          => (pc' = "Growing" /\ Len(rooms') = 0)]_vars

(* the run whose seed room is as wide as the map ended by the error, in its
   first growth iteration, with no room and nothing carved *)
C19_Witness ==
    /\ pc = "Failed"
    /\ inputs.complexity >= 1
    /\ i = 0
    /\ Len(rooms) = 0
    /\ ~WithinBorders(SeedRoom)
    /\ tiles = <<>>

(* C20: rooms and corridors only grow at their end: across every step the
   nodes rooms held are still there, in place and in order, each wrapping the
   rectangle it wrapped, and corridors as it was is a prefix of corridors *)
C20_AppendOnly ==
    [][/\ Len(rooms') >= Len(rooms)
       /\ \A r \in 1..Len(rooms) :
             /\ rooms'[r].room = rooms[r].room
             /\ rooms'[r].is_room = rooms[r].is_room
       /\ Len(corridors') >= Len(corridors)
       /\ \A n \in 1..Len(corridors) : corridors'[n] = corridors[n]]_vars

(* a call appended cells to the cells of an earlier call, two rooms in place *)
C20_Witness ==
    /\ pc = "api"
    /\ Len(rooms) = 2
    /\ last.op = "add_random_corridor"
    /\ last.line \in {383, 385}
    /\ Len(corridors) >= 2
    /\ corridors[Len(corridors)] \in
          {Cell(rooms[last.room].room, last.k, n) : n \in 1..last.length}
    /\ corridors[1] \notin
          {Cell(rooms[last.room].room, last.k, n) : n \in 1..last.length}

(* the phase a position of generate_paper_dungeon belongs to; the run that
   raised an error is in none of the six *)
Phase(p) ==
    CASE p = "Seeding" -> 1
      [] p \in {"Growing", "NewRoom"} -> 2
      [] p = "Rasterizing" -> 3
      [] p \in {"PlacingPlayer", "Populating"} -> 4
      [] p \in {"Finalizing", "PlacingStairs"} -> 5
      [] p = "Done" -> 6
      [] p = "Failed" -> 7

(* C21: a run goes through Seeding, Growing, Rasterizing, Populating,
   Finalizing, Done in that order, never back and skipping none; Growing makes
   complexity * 8 corridor attempts, one per iteration, with connecting = false
   (a corridor that returns its end was committed), each adding at most one
   room, so rooms holds at most 1 + complexity * 8 rooms when Growing ends,
   and no room or corridor is added after it *)
C21_Phases ==
    [][/\ \/ Phase(pc') = Phase(pc)
          \/ Phase(pc') = Phase(pc) + 1
          \/ pc' = "Failed"
       /\ pc # "Failed" /\ pc # "Done"
       /\ Phase(pc) = 2
          => /\ i <= inputs.complexity * 8
             /\ (pc = "Growing" /\ Phase(pc') = 2)
                   => /\ i < inputs.complexity * 8
                      /\ Len(rooms') = Len(rooms)
                      /\ IF new_room' # None
                         THEN /\ pc' = "NewRoom" /\ i' = i
                              /\ Len(corridors') > Len(corridors)
                              /\ corridors'[Len(corridors')] = new_room'
                         ELSE pc' = "Growing" /\ i' = i + 1
             /\ pc = "NewRoom"
                   => /\ pc' = "Growing" /\ i' = i + 1
                      /\ Len(rooms') \in {Len(rooms), Len(rooms) + 1}
                      /\ corridors' = corridors
             /\ Phase(pc') = 3 => i = inputs.complexity * 8
       /\ Phase(pc') = 2 => Len(rooms') <= 1 + i'
       /\ Phase(pc') \in 3..6
          => /\ i' = inputs.complexity * 8
             /\ Len(rooms') <= 1 + inputs.complexity * 8
       /\ Phase(pc) \in 3..6
          => (rooms' = rooms /\ corridors' = corridors /\ data' = data)]_vars

(* a run with eight growth iterations is done: it grew rooms and corridors and
   some iterations added nothing *)
C21_Witness ==
    /\ pc = "Done"
    /\ inputs.complexity = 1
    /\ i = 8
    /\ Len(rooms) >= 3
    /\ Len(rooms) < 1 + i
    /\ Len(corridors) >= 2

(* C22: grow(m) returns a rectangle with the bounds (x1 - m, y1 - m, x2 + m,
   y2 + m): width and height are each greater by 2 * m and the center is the
   same; the receiver is as it was, and grow(0) returns the receiver's bounds *)
C22_Grow ==
    [][last'.op = "grow"
        => /\ last'.new = last.new
           /\ last'.ret[1].x1 = last.new.x1 - last'.length
           /\ last'.ret[1].y1 = last.new.y1 - last'.length
           /\ last'.ret[1].x2 = last.new.x2 + last'.length
           /\ last'.ret[1].y2 = last.new.y2 + last'.length
           /\ (last'.ret[1].x2 - last'.ret[1].x1) =
                 (last.new.x2 - last.new.x1) + 2 * last'.length
           /\ (last'.ret[1].y2 - last'.ret[1].y1) =
                 (last.new.y2 - last.new.y1) + 2 * last'.length
           /\ center(last'.ret[1]) = center(last.new)
           /\ last'.length = 0 => last'.ret[1] = last.new]_vars

(* a rectangle that a call had grown was grown again, by one or more, and the
   rectangle returned differs from it *)
C22_Witness ==
    /\ pc = "grow"
    /\ last.op = "grow"
    /\ i = 2
    /\ last.length >= 1
    /\ last.ret # None
    /\ last.ret[1] # last.new
    /\ last.new \notin GrowReceivers

(* C23: in every map generate_paper_dungeon returns, the down-stairs are at
   another coordinate than the player *)
C23_StairsNotAtPlayer ==
    pc = "Done" => downstairs_location # player

(* C24: after any sequence of add_room and add_random_corridor calls the
   coordinates occupied in the index are exactly the cells of the footprints
   of the rooms of rooms and the cells of corridors: the index holds no other
   key, and no cell of an accepted room or a committed corridor is missing *)
C24_IndexIsGeometry ==
    /\ \A c \in Coords : (key(c[1], c[2]) \in DOMAIN data) <=> Carved(c)
    /\ DOMAIN data \subseteq {key(c[1], c[2]) : c \in Coords}
    /\ \A n \in 1..Len(rooms) : inner(rooms[n].room) \subseteq Coords
    /\ \A n \in 1..Len(corridors) : corridors[n] \in Coords

(* the index holds a room lying along the edge of borders, a second room, and
   two or more corridor cells *)
C24_Witness ==
    /\ pc = "api"
    /\ Len(rooms) = 2
    /\ \E n \in 1..Len(rooms) : rooms[n].room.x1 = Padding
    /\ Len(corridors) >= 2
    /\ Cardinality(DOMAIN data) >= Len(corridors) + 2

====
